---- MODULE Spec2Model ----
(***************************************************************************)
(* A model of the wiki dump extractor (src/main.py): the tag scanner, the  *)
(* template collector, the page collector and the dispatcher / worker /    *)
(* reducer pipeline of process_dump.                                       *)
(*                                                                         *)
(* Text is modelled as Python models it: a string is a sequence of         *)
(* characters (one-character TLA+ strings), a file is a sequence of lines, *)
(* each line ending in the newline character.                              *)
(***************************************************************************)
EXTENDS Integers, Sequences, FiniteSets, TLC

\* ------------------------------------------------------------------------
\* Strings

NL == "\n"
LT == "<"
GT == ">"
SLASH == "/"
COLON == ":"
SPACE == " "
QUOTE == "\""

\* The characters \w matches, among those the inputs below are written with.
WordChars ==
  {"a", "b", "c", "d", "e", "f", "g", "i", "k", "l", "m", "n", "o", "p", "r",
   "s", "t", "u", "v", "x", "y", "T", "M", "W", "0", "1", "2", "3", "4", "5",
   "6", "7", "8", "9", "_"}

\* s[a:b] of Python, with 0-based a (inclusive) and b (exclusive), 0 <= a.
Slice(s, a, b) ==
  IF b <= a THEN << >> ELSE SubSeq(s, a + 1, IF b > Len(s) THEN Len(s) ELSE b)

\* s.find(c) for a one-character c: the 0-based index of its first
\* occurrence, or -1.
Find(s, c) ==
  IF \E i \in 1..Len(s) : s[i] = c
  THEN (CHOOSE i \in 1..Len(s) : s[i] = c /\ \A j \in 1..(i - 1) : s[j] # c) - 1
  ELSE -1

\* s.rfind(c): the 0-based index of the last occurrence, or -1.
RFind(s, c) ==
  IF \E i \in 1..Len(s) : s[i] = c
  THEN (CHOOSE i \in 1..Len(s) : s[i] = c /\ \A j \in (i + 1)..Len(s) : s[j] # c) - 1
  ELSE -1

\* s.startswith(p)
StartsWith(s, p) == Len(p) <= Len(s) /\ SubSeq(s, 1, Len(p)) = p

\* re.search(p, s) for a pattern p of literal characters: p occurs in s.
Contains(s, p) ==
  \E i \in 0..(Len(s) - Len(p)) : SubSeq(s, i + 1, i + Len(p)) = p

\* ''.join(parts)
RECURSIVE Join(_)
Join(parts) ==
  IF parts = << >> THEN << >> ELSE Head(parts) \o Join(Tail(parts))

\* The lines a text file holding the characters s is read as: each line runs
\* up to and including its newline; a last line may lack one.
RECURSIVE SplitLines(_)
SplitLines(s) ==
  IF s = << >> THEN << >>
  ELSE LET n == Find(s, NL)
       IN IF n < 0 THEN << s >>
          ELSE << SubSeq(s, 1, n + 1) >> \o SplitLines(SubSeq(s, n + 2, Len(s)))

\* ------------------------------------------------------------------------
\* The tag scanner: tagRE = (.*?)<(/?\w+)[^>]*>(?:([^<]*)(<.*?>)?)?

\* The 1-based position just after the longest run of word characters (\w+)
\* that starts at position i of s.
RECURSIVE WordRunEnd(_, _)
WordRunEnd(s, i) ==
  IF i <= Len(s) /\ s[i] \in WordChars THEN WordRunEnd(s, i + 1) ELSE i

\* The 1-based position just after the longest run of characters other than
\* c ([^c]*) that starts at position i of s.
RECURSIVE RunEndNot(_, _, _)
RunEndNot(s, i, c) ==
  IF i <= Len(s) /\ s[i] # c THEN RunEndNot(s, i + 1, c) ELSE i

\* <(/?\w+)[^>]*> matches at position i of s: a "<", an optional "/", at
\* least one word character and, somewhere after them, a ">".
NameStart(s, i) == IF i + 1 <= Len(s) /\ s[i + 1] = SLASH THEN i + 2 ELSE i + 1
TagAt(s, i) ==
  LET ns == NameStart(s, i)
      ne == WordRunEnd(s, ns)
  IN /\ s[i] = LT
     /\ ne > ns
     /\ \E p \in ne..Len(s) : s[p] = GT

\* tagRE.search(line).  The lazy (.*?) stops at the first position where a
\* tag matches, and "." does not match a newline: the match starts at the
\* leftmost position from which the first tag of the line is reached without
\* passing a newline.  The result holds m.group(1), m.group(2), m.group(3)
\* and m.lastindex; line[m.start(3):m.end(3)] is m.group(3).
NoMatch == [matched |-> FALSE, g1 |-> << >>, g2 |-> << >>, g3 |-> << >>, lastindex |-> 0]

\* The position of the first tag of the line, 0 if it has none.
FirstTag(line) ==
  LET Tags == {i \in 1..Len(line) : TagAt(line, i)}
  IN IF Tags = {} THEN 0 ELSE CHOOSE a \in Tags : \A b \in Tags : a <= b

\* Where the match whose tag is at i starts: after the last newline before i.
MatchStart(line, i) ==
  LET Breaks == {0} \cup {j \in 1..(i - 1) : line[j] = NL}
  IN (CHOOSE a \in Breaks : \A b \in Breaks : a >= b) + 1

\* [^>]*>: the position of the first ">" at or after position ne.
TagEnd(line, ne) ==
  CHOOSE k \in ne..Len(line) : line[k] = GT /\ \A j \in ne..(k - 1) : line[j] # GT

\* (<.*?>)? matches at position q: a "<" there and a ">" after it on the
\* same line.
Group4At(line, q) ==
  /\ q <= Len(line)
  /\ line[q] = LT
  /\ \E r \in (q + 1)..Len(line) :
       line[r] = GT /\ \A j \in (q + 1)..(r - 1) : line[j] # NL

\* The match that starts at st, with its tag at i, the tag's name ending
\* before ne, the tag closing at p and ([^<]*) ending before q.
Groups(line, st, i, ne, p, q) ==
  [matched |-> TRUE,
   g1 |-> SubSeq(line, st, i - 1),
   g2 |-> SubSeq(line, i + 1, ne - 1),
   g3 |-> SubSeq(line, p + 1, q - 1),
   lastindex |-> IF Group4At(line, q) THEN 4 ELSE 3]
MatchClosedAt(line, i, ne, p) ==
  Groups(line, MatchStart(line, i), i, ne, p, RunEndNot(line, p + 1, LT))
MatchNamed(line, i, ne) == MatchClosedAt(line, i, ne, TagEnd(line, ne))
MatchAt(line, i) ==
  IF i = 0 THEN NoMatch ELSE MatchNamed(line, i, WordRunEnd(line, NameStart(line, i)))
tagRE(line) == MatchAt(line, FirstTag(line))

\* ------------------------------------------------------------------------
\* Tag names and the lines of a dump

n_page == <<"p", "a", "g", "e">>
n_cpage == <<"/", "p", "a", "g", "e">>
n_title == <<"t", "i", "t", "l", "e">>
n_id == <<"i", "d">>
n_ns == <<"n", "s">>
n_redirect == <<"r", "e", "d", "i", "r", "e", "c", "t">>
n_revision == <<"r", "e", "v", "i", "s", "i", "o", "n">>
n_text == <<"t", "e", "x", "t">>
n_ctext == <<"/", "t", "e", "x", "t">>
n_base == <<"b", "a", "s", "e">>
n_namespace == <<"n", "a", "m", "e", "s", "p", "a", "c", "e">>
n_siteinfo == <<"s", "i", "t", "e", "i", "n", "f", "o">>
n_csiteinfo == <<"/", "s", "i", "t", "e", "i", "n", "f", "o">>

Open(name) == <<LT>> \o name \o <<GT>>
Close(name) == <<LT, SLASH>> \o name \o <<GT>>
\* <name>body</name>\n
Elem(name, body) == Open(name) \o body \o Close(name) \o <<NL>>
\* <name />\n
Empty(name) == <<LT>> \o name \o <<SPACE, SLASH, GT, NL>>

\* ------------------------------------------------------------------------
\* The template store (extract.define_template; the store maps a title to
\* the body lines collected for it)

define_template(store, title, page) ==
  [t \in DOMAIN store \cup {title} |-> IF t = title THEN page ELSE store[t]]

\* ------------------------------------------------------------------------
\* load_templates

\* What load_templates writes to the mirror file for one page.
\* Python: output.write('<page>\n') ... output.write('</page>\n')
MirrorPage(title, page) ==
  Open(n_page) \o <<NL>>
    \o <<SPACE, SPACE, SPACE>> \o Open(n_title) \o title \o Close(n_title) \o <<NL>>
    \o <<SPACE, SPACE, SPACE>> \o Open(n_ns) \o <<"1", "0">> \o Close(n_ns) \o <<NL>>
    \o <<SPACE, SPACE, SPACE>> \o Open(n_text)
    \o Join(page)
    \o <<SPACE, SPACE, SPACE>> \o Close(n_text) \o <<NL>>
    \o Close(n_page) \o <<NL>>

\* The frame of load_templates at its entry, given the globals it reads:
\* templateNamespace, Extractor.templatePrefix and moduleNamespace.
\* output holds the characters written to the mirror file so far.
LtInit(templateNamespace, templatePrefix, moduleNamespace) ==
  [page |-> << >>, inText |-> FALSE, title |-> << >>, titleBound |-> FALSE,
   articles |-> 0, templates |-> 0,
   templateNamespace |-> templateNamespace, templatePrefix |-> templatePrefix,
   modulePrefix |-> moduleNamespace \o <<COLON>>,
   store |-> << >>, output |-> << >>, raised |-> FALSE]

\* The closing page tag in load_templates (lines 179-195).  A title that was
\* never bound raises NameError.
LtClosePage(s, hasOut) ==
  IF ~s.titleBound THEN [s EXCEPT !.raised = TRUE]
  ELSE
    LET isTemplate == StartsWith(s.title, s.templatePrefix)
        mirrored == hasOut /\ (isTemplate \/ StartsWith(s.title, s.modulePrefix))
    IN [s EXCEPT
          !.store = IF isTemplate THEN define_template(@, s.title, s.page) ELSE @,
          !.templates = IF isTemplate THEN @ + 1 ELSE @,
          !.output = IF mirrored THEN @ \o MirrorPage(s.title, s.page) ELSE @,
          !.page = << >>,
          !.articles = @ + 1]

\* The title tag in load_templates (lines 158-165).
LtTitle(s, title, hasOut) ==
  LET colon == Find(title, COLON)
  IN IF ~hasOut /\ s.templateNamespace = << >> /\ colon > 1
     THEN [s EXCEPT !.title = title, !.titleBound = TRUE,
                    !.templateNamespace = Slice(title, 0, colon),
                    !.templatePrefix = Slice(title, 0, colon + 1)]
     ELSE [s EXCEPT !.title = title, !.titleBound = TRUE]

\* One iteration of the loop of load_templates over the lines of its file
\* (lines 146-197); hasOut: an output_file was given.
LtTagLine(s, line, m, hasOut) ==
  IF ~m.matched THEN s
  ELSE IF m.g2 = n_page THEN [s EXCEPT !.page = << >>]
  ELSE IF m.g2 = n_title THEN LtTitle(s, m.g3, hasOut)
  ELSE IF m.g2 = n_text
    THEN [s EXCEPT !.inText = (m.lastindex # 4), !.page = Append(@, m.g3)]
  ELSE IF m.g2 = n_ctext
    THEN [s EXCEPT !.page = IF m.g1 # << >> THEN Append(@, m.g1) ELSE @,
                   !.inText = FALSE]
  ELSE IF s.inText THEN [s EXCEPT !.page = Append(@, line)]
  ELSE IF m.g2 = n_cpage THEN LtClosePage(s, hasOut)
  ELSE s
LtStep(s, line, hasOut) ==
  IF Find(line, LT) < 0
  THEN IF s.inText THEN [s EXCEPT !.page = Append(@, line)] ELSE s
  ELSE LtTagLine(s, line, tagRE(line), hasOut)

\* load_templates run over all of lines, from frame s.
RECURSIVE LtRun(_, _, _)
LtRun(s, lines, hasOut) ==
  IF lines = << >> \/ s.raised THEN s
  ELSE LtRun(LtStep(s, Head(lines), hasOut), Tail(lines), hasOut)

\* ------------------------------------------------------------------------
\* collect_pages

\* The frame of collect_pages at its entry; yielded holds the records
\* yielded so far, each an (id, revid, title, page).
CpInit ==
  [page |-> << >>, id |-> << >>, revid |-> << >>, last_id |-> << >>,
   inText |-> FALSE, redirect |-> FALSE, title |-> << >>, titleBound |-> FALSE,
   yielded |-> << >>, raised |-> FALSE]

\* The condition without the test of the redirect flag.
CpQualifies_NoRedirect(s, accepted, templateNamespace) ==
  LET colon == Find(s.title, COLON)
  IN /\ (colon < 0 \/ Slice(s.title, 0, colon) \in accepted)
     /\ s.id # s.last_id
     /\ ~StartsWith(s.title, templateNamespace)

\* The condition of line 265-266 under which a closing page tag yields.
CpQualifies(s, accepted, templateNamespace) ==
  LET colon == Find(s.title, COLON)
  IN /\ (colon < 0 \/ Slice(s.title, 0, colon) \in accepted)
     /\ s.id # s.last_id
     /\ ~s.redirect
     /\ ~StartsWith(s.title, templateNamespace)

\* A closing page tag that remembers the id of every page element, yielded
\* or not.
CpClosePage_TrackAll(s, accepted, templateNamespace) ==
  IF ~s.titleBound THEN [s EXCEPT !.raised = TRUE]
  ELSE
    LET yields == CpQualifies(s, accepted, templateNamespace)
    IN [s EXCEPT
          !.yielded = IF yields
                      THEN Append(@, [id |-> s.id, revid |-> s.revid,
                                      title |-> s.title, page |-> s.page])
                      ELSE @,
          !.last_id = s.id,
          !.id = << >>,
          !.revid = << >>,
          !.page = << >>,
          !.inText = FALSE,
          !.redirect = FALSE]

\* The closing page tag in collect_pages (lines 263-273).
CpClosePage(s, accepted, templateNamespace) ==
  IF ~s.titleBound THEN [s EXCEPT !.raised = TRUE]
  ELSE
    LET yields == CpQualifies(s, accepted, templateNamespace)
    IN [s EXCEPT
          !.yielded = IF yields
                      THEN Append(@, [id |-> s.id, revid |-> s.revid,
                                      title |-> s.title, page |-> s.page])
                      ELSE @,
          !.last_id = IF yields THEN s.id ELSE @,
          !.id = << >>,
          !.revid = << >>,
          !.page = << >>,
          !.inText = FALSE,
          !.redirect = FALSE]

\* One iteration of the loop of collect_pages over the lines of the dump
\* (lines 231-273).
CpTagLine(s, line, m, accepted, templateNamespace) ==
  IF ~m.matched THEN s
  ELSE IF m.g2 = n_page THEN [s EXCEPT !.page = << >>, !.redirect = FALSE]
  ELSE IF m.g2 = n_id /\ s.id = << >> THEN [s EXCEPT !.id = m.g3]
  ELSE IF m.g2 = n_id /\ s.id # << >> THEN [s EXCEPT !.revid = m.g3]
  ELSE IF m.g2 = n_title THEN [s EXCEPT !.title = m.g3, !.titleBound = TRUE]
  ELSE IF m.g2 = n_redirect THEN [s EXCEPT !.redirect = TRUE]
  ELSE IF m.g2 = n_text
    THEN [s EXCEPT !.inText = (m.lastindex # 4), !.page = Append(@, m.g3)]
  ELSE IF m.g2 = n_ctext
    THEN [s EXCEPT !.page = IF m.g1 # << >> THEN Append(@, m.g1) ELSE @,
                   !.inText = FALSE]
  ELSE IF s.inText THEN [s EXCEPT !.page = Append(@, line)]
  ELSE IF m.g2 = n_cpage THEN CpClosePage(s, accepted, templateNamespace)
  ELSE s
CpStep(s, line, accepted, templateNamespace) ==
  IF Find(line, LT) < 0
  THEN IF s.inText THEN [s EXCEPT !.page = Append(@, line)] ELSE s
  ELSE CpTagLine(s, line, tagRE(line), accepted, templateNamespace)

\* collect_pages run over all of lines, from frame s.
RECURSIVE CpRun(_, _, _, _)
CpRun(s, lines, accepted, templateNamespace) ==
  IF lines = << >> \/ s.raised THEN s
  ELSE CpRun(CpStep(s, Head(lines), accepted, templateNamespace),
             Tail(lines), accepted, templateNamespace)

\* ------------------------------------------------------------------------
\* The header reader of process_dump (lines 294-315)

k_key10 == <<"k", "e", "y", "=", QUOTE, "1", "0", QUOTE>>
k_key828 == <<"k", "e", "y", "=", QUOTE, "8", "2", "8", QUOTE>>

\* The module globals at import (lines 64, 69, 74) and Extractor.templatePrefix;
\* modulePrefix is unbound until load_templates or a key="828" line binds it,
\* and nothing reads it before.
GlobalsInit ==
  [urlbase |-> << >>,
   knownNamespaces |-> { <<"T", "e", "m", "p", "l", "a", "t", "e">> },
   templateNamespace |-> << >>,
   templatePrefix |-> << >>,
   moduleNamespace |-> << >>]

\* base[:base.rfind("/")]: a negative end counts from the end of the string.
UrlBase(base) ==
  LET r == RFind(base, SLASH)
  IN IF r < 0 THEN Slice(base, 0, Len(base) + r) ELSE Slice(base, 0, r)

\* One line of the header, which does not close it (lines 296-313).
HdTagLine(gl, line, m) ==
  IF ~m.matched THEN gl
  ELSE IF m.g2 = n_base THEN [gl EXCEPT !.urlbase = UrlBase(m.g3)]
  ELSE IF m.g2 = n_namespace
    THEN IF Contains(line, k_key10)
         THEN [gl EXCEPT !.knownNamespaces = @ \cup {m.g3},
                         !.templateNamespace = m.g3,
                         !.templatePrefix = m.g3 \o <<COLON>>]
         ELSE IF Contains(line, k_key828)
         THEN [gl EXCEPT !.knownNamespaces = @ \cup {m.g3},
                         !.moduleNamespace = m.g3]
         ELSE [gl EXCEPT !.knownNamespaces = @ \cup {m.g3}]
  ELSE gl
HdStep(gl, line) == HdTagLine(gl, line, tagRE(line))

\* The line closes the header: its tag is /siteinfo (line 314).
HdClosesMatch(m) == m.matched /\ m.g2 = n_csiteinfo
HdCloses(line) == HdClosesMatch(tagRE(line))

\* The header loop over the lines of the input: the globals it leaves and
\* the lines it leaves unread.
RECURSIVE HdRun(_, _)
HdRun(gl, lines) ==
  IF lines = << >> THEN [g |-> gl, rest |-> << >>]
  ELSE IF HdCloses(Head(lines)) THEN [g |-> gl, rest |-> Tail(lines)]
  ELSE HdRun(HdStep(gl, Head(lines)), Tail(lines))

\* ------------------------------------------------------------------------
\* Inputs: dumps built from a header and page elements

t_Tm == <<"T", "m">>
t_M == <<"M">>
t_W == <<"W">>

\* The header lines of a dump.  Header 1 declares the template namespace
\* (key 10), the module namespace (key 828) and one more namespace; header 2
\* declares no template namespace; a dump with header 3 has no header at
\* all and starts with its first page element.
NamespaceLine(key, name) ==
  <<LT>> \o n_namespace \o <<SPACE, "k", "e", "y", "=", QUOTE>> \o key \o <<QUOTE, GT>>
    \o name \o Close(n_namespace) \o <<NL>>
HeaderLines(h) ==
  IF h = 3 THEN << >>
  ELSE
  << Open(n_siteinfo) \o <<NL>>,
     Elem(n_base, <<"u", SLASH, "w", SLASH, "M">>),
     NamespaceLine(<<"4">>, t_W) >>
  \o (IF h = 1
      THEN << NamespaceLine(<<"1", "0">>, t_Tm), NamespaceLine(<<"8", "2", "8">>, t_M) >>
      ELSE << >>)
  \o << Close(n_siteinfo) \o <<NL>> >>

\* The lines of the text element of a page, by its shape.
TextLines(shape) ==
  CASE shape = "inline" -> << <<SPACE, SPACE>> \o Elem(n_text, <<"b">>) >>
    [] shape = "empty" -> << Elem(n_text, << >>) >>
    [] shape = "multi" -> << Open(n_text) \o <<"b", NL>>,
                             <<"c", NL>>,
                             <<"d">> \o Close(n_text) \o <<NL>> >>
    [] shape = "multi_nl" -> << Open(n_text) \o <<"b", NL>>,
                                Close(n_text) \o <<NL>> >>
    [] shape = "selfclosed" -> << Empty(n_text) >>
    [] shape = "multi_tag" -> << Open(n_text) \o <<"b", NL>>,
                                 Elem(n_id, <<"8">>),
                                 <<"d">> \o Close(n_text) \o <<NL>> >>
    [] OTHER -> << >>

\* The lines of a page element.  A page is [title, hasTitle, id, redirect,
\* text]; an empty id stands for a page that has no id tag at all (neither
\* its own nor its revision's).
PageLines(pg) ==
  << Open(n_page) \o <<NL>> >>
  \o (IF pg.hasTitle THEN << Elem(n_title, pg.title) >> ELSE << >>)
  \o (IF pg.id # << >> THEN << Elem(n_id, pg.id) >> ELSE << >>)
  \o (IF pg.redirect
      THEN << <<LT>> \o n_redirect \o <<SPACE, "t", "=", QUOTE, "x", QUOTE, SPACE, SLASH, GT, NL>> >>
      ELSE << >>)
  \o << Open(n_revision) \o <<NL>> >>
  \o (IF pg.id # << >> THEN << Elem(n_id, <<"9">>) >> ELSE << >>)
  \o TextLines(pg.text)
  \o << Close(n_revision) \o <<NL>>, Close(n_page) \o <<NL>> >>

Page(title, id, redirect, text) ==
  [title |-> title, hasTitle |-> TRUE, id |-> id, redirect |-> redirect, text |-> text]
Untitled(id, text) ==
  [title |-> << >>, hasTitle |-> FALSE, id |-> id, redirect |-> FALSE, text |-> text]

\* The lines of a sequence of page elements.
RECURSIVE PagesLines(_)
PagesLines(pages) ==
  IF pages = << >> THEN << >> ELSE PageLines(Head(pages)) \o PagesLines(Tail(pages))

\* ------------------------------------------------------------------------
\* Bounds

\* Page elements in a dump given to the template collector.
MaxTemplatePages == 2
\* Page elements in a dump given to the page collector.
MaxCollectPages == 3
\* Articles in a dump run through the pipeline by a single worker (enough to
\* fill a queue of 10), and by a pool of several workers.
MaxPages == 11
MaxParPages == 3
\* The largest process_count.
MaxProcs == 2

\* ------------------------------------------------------------------------
\* State

VARIABLES
  \* the template collector: its input, the pass (the first run, which may
  \* write the mirror file, and a later run that reads the mirror file), the
  \* lines read in this pass, the frame of load_templates, and its frame at
  \* the return of the first pass
  t_in, t_pass, t_pos, lt, t_first,
  \* the page collector: its input and globals, the lines read, the frame of
  \* collect_pages, whether the generator is running, exhausted or raised;
  \* history: a redirect tag was read since the last opening page tag, the
  \* closing page tags acted on, and the page element (by position in the
  \* dump) whose closing tag yielded each record
  c_in, c_pos, cp, c_state, c_redirectSeen, c_closed, c_yieldAt,
  \* process_dump: its arguments, the main line's position, the error raised,
  \* the module globals, the template store, whether the mirror file was
  \* written, the records collect_pages has still to yield, ordinal, maxsize
  cfg, pc, error, g, templates, mirror_saved, pages, ordinal, maxsize,
  \* the lines read from the input file object
  input_pos,
  \* the two queues, the worker processes, the reducer process, the sentinels
  \* put on jobs_queue, the workers joined
  jobs_queue, output_queue, worker, reducer, signalled, joined,
  \* the output directory, the reducer's pages_written
  files, pages_written,
  \* history: the store when the first worker was spawned, the ordinals
  \* handed to write_page, the sentinels put on and popped from output_queue
  store_at_spawn, written, sentinels_put, sentinels_popped

templVars == << t_in, t_pass, t_pos, lt, t_first >>
collectVars == << c_in, c_pos, cp, c_state, c_redirectSeen, c_closed, c_yieldAt >>
pipeVars == << cfg, pc, error, g, templates, mirror_saved, pages, ordinal, maxsize,
               input_pos, jobs_queue, output_queue, worker, reducer, signalled, joined,
               files, pages_written,
               store_at_spawn, written, sentinels_put, sentinels_popped >>
vars == << templVars, collectVars, pipeVars >>

\* ------------------------------------------------------------------------
\* The template collector, line by line

TemplateKinds ==
  << Page(t_Tm \o <<COLON, "a">>, <<"1">>, FALSE, "inline"),
     Page(t_Tm \o <<COLON, "b">>, <<"2">>, FALSE, "multi"),
     Page(t_Tm \o <<COLON, "c">>, <<"3">>, FALSE, "multi_nl"),
     Page(t_Tm \o <<COLON, "d">>, <<"4">>, FALSE, "empty"),
     Page(t_M \o <<COLON, "x">>, <<"5">>, FALSE, "inline"),
     Page(<<"a">>, <<"6">>, FALSE, "inline"),
     Page(t_W \o <<COLON, "a">>, <<"7">>, FALSE, "inline"),
     Untitled(<<"8">>, "inline") >>

TemplateDumps ==
  UNION { [1..n -> 1..Len(TemplateKinds)] : n \in 0..MaxTemplatePages }

\* The globals process_dump leaves after reading the header of the dump, and
\* the lines of the dump that follow the header.
TemplGlobals == HdRun(GlobalsInit, HeaderLines(t_in.header)).g
\* The frame of load_templates at its entry in a run over this dump.
TemplEntry ==
  LET h == TemplGlobals
  IN LtInit(h.templateNamespace, h.templatePrefix, h.moduleNamespace)
TemplDumpLines ==
  PagesLines([i \in 1..Len(t_in.pages) |-> TemplateKinds[t_in.pages[i]]])
\* The first pass reads the dump (load_templates(input, template_file), line
\* 330); the second reads the mirror file the first wrote
\* (load_templates(file), lines 322-323).
TemplLines ==
  IF t_pass = "first" THEN TemplDumpLines ELSE SplitLines(t_first.output)
TemplHasOut == t_pass = "first" /\ t_in.hasOut

TemplIdle ==
  /\ t_in = [header |-> 1, pages |-> << >>, hasOut |-> FALSE]
  /\ t_pass = "done"
  /\ t_pos = 0
  /\ lt = LtInit(<< >>, << >>, << >>)
  /\ t_first = LtInit(<< >>, << >>, << >>)

TemplInit ==
  /\ t_in \in [header : {1, 2}, pages : TemplateDumps, hasOut : BOOLEAN]
  /\ t_pass = "first"
  /\ t_pos = 0
  /\ lt = TemplEntry
  /\ t_first = LtInit(<< >>, << >>, << >>)

\* One iteration of the loop of load_templates.
LoadTemplatesLine ==
  /\ UNCHANGED << collectVars, pipeVars >>
  /\ t_pass \in {"first", "second"}
  /\ ~lt.raised
  /\ t_pos < Len(TemplLines)
  /\ lt' = LtStep(lt, TemplLines[t_pos + 1], TemplHasOut)
  /\ t_pos' = t_pos + 1
  /\ UNCHANGED << t_in, t_pass, t_first >>

\* load_templates returns from the first pass.  With a mirror file written,
\* a later run reads the header of the same dump and loads the mirror file.
LoadTemplatesReturn ==
  /\ UNCHANGED << collectVars, pipeVars >>
  /\ t_pass = "first"
  /\ ~lt.raised
  /\ t_pos = Len(TemplLines)
  /\ t_first' = lt
  /\ IF t_in.hasOut
     THEN /\ t_pass' = "second"
          /\ t_pos' = 0
          /\ lt' = TemplEntry
     ELSE /\ t_pass' = "done"
          /\ UNCHANGED << t_pos, lt >>
  /\ UNCHANGED t_in

\* load_templates returns from the second pass.
ReloadTemplatesReturn ==
  /\ UNCHANGED << collectVars, pipeVars >>
  /\ t_pass = "second"
  /\ ~lt.raised
  /\ t_pos = Len(TemplLines)
  /\ t_pass' = "done"
  /\ UNCHANGED << t_in, t_pos, lt, t_first >>

\* A closing page tag was read before any title: NameError leaves the loop.
LoadTemplatesRaise ==
  /\ UNCHANGED << collectVars, pipeVars >>
  /\ t_pass \in {"first", "second"}
  /\ lt.raised
  /\ t_pass' = "raised"
  /\ UNCHANGED << t_in, t_pos, lt, t_first >>

\* ------------------------------------------------------------------------
\* The page collector, line by line

CollectKinds ==
  << Page(<<"a">>, <<"1">>, FALSE, "inline"),
     Page(<<"c">>, <<"2">>, FALSE, "multi"),
     Page(t_W \o <<COLON, "a">>, <<"2">>, FALSE, "inline"),
     Page(<<"d">>, <<"2">>, TRUE, "inline"),
     Page(t_Tm \o <<COLON, "a">>, <<"3">>, FALSE, "inline"),
     Page(<<"e">>, <<"4">>, FALSE, "selfclosed"),
     Page(<<"f">>, << >>, FALSE, "inline"),
     Untitled(<<"5">>, "inline"),
     Page(t_Tm \o <<"a">>, <<"6">>, FALSE, "inline"),
     Page(<<"g">>, <<"7">>, FALSE, "multi_tag") >>

\* The input is read as a stream: c_in.pages are the page elements read so
\* far, by their positions in CollectKinds, the last of them up to its line
\* number c_pos.
CollectPagesOf(dump) == [i \in 1..Len(dump) |-> CollectKinds[dump[i]]]
CollectPageLines ==
  IF c_in.pages = << >> THEN << >>
  ELSE PageLines(CollectKinds[c_in.pages[Len(c_in.pages)]])

CollectIdle ==
  /\ c_in = [pages |-> << >>, accepted |-> {}, templateNamespace |-> << >>]
  /\ c_pos = 0
  /\ cp = CpInit
  /\ c_state = "exhausted"
  /\ c_redirectSeen = FALSE
  /\ c_closed = 0
  /\ c_yieldAt = << >>

\* acceptedNamespaces is the default of the extract module or the set given
\* with --namespaces (lines 489-490); templateNamespace is what the header
\* and the template collector left.
CollectInit ==
  /\ c_in \in [pages : {<< >>},
               accepted : {{}, {t_W}},
               templateNamespace : {<< >>, t_Tm}]
  /\ c_pos = 0
  /\ cp = CpInit
  /\ c_state = "running"
  /\ c_redirectSeen = FALSE
  /\ c_closed = 0
  /\ c_yieldAt = << >>

\* The frame after the iteration on a line, whose match is m, and what the
\* iteration did: c_redirectSeen, a redirect tag was read since the last
\* opening page tag; c_closed, the closing page tags acted on; c_yieldAt, the
\* positions in the dump of the page elements at whose end a record was
\* yielded.
CollectIteration(line, m, npages) ==
  /\ cp' = CpStep(cp, line, c_in.accepted, c_in.templateNamespace)
  /\ c_redirectSeen' =
       IF m.matched /\ m.g2 = n_page THEN FALSE
       ELSE IF m.matched /\ m.g2 = n_redirect THEN TRUE
       ELSE c_redirectSeen
  /\ c_closed' =
       IF m.matched /\ m.g2 = n_cpage /\ ~cp.inText /\ cp.titleBound
       THEN c_closed + 1 ELSE c_closed
  /\ c_yieldAt' =
       IF Len(cp'.yielded) > Len(cp.yielded)
       THEN Append(c_yieldAt, npages) ELSE c_yieldAt

\* One iteration of the loop of collect_pages: on the next line of the page
\* element being read or, after its last line, on the first line of another
\* page element.
CollectPagesLine ==
  /\ UNCHANGED << templVars, pipeVars >>
  /\ c_state = "running"
  /\ ~cp.raised
  /\ \/ /\ c_pos < Len(CollectPageLines)
        /\ CollectIteration(CollectPageLines[c_pos + 1],
                            tagRE(CollectPageLines[c_pos + 1]), Len(c_in.pages))
        /\ c_pos' = c_pos + 1
        /\ UNCHANGED c_in
     \/ /\ c_pos = Len(CollectPageLines)
        /\ Len(c_in.pages) < MaxCollectPages
        /\ \E k \in 1..Len(CollectKinds) :
             /\ c_in' = [c_in EXCEPT !.pages = Append(@, k)]
             /\ CollectIteration(PageLines(CollectKinds[k])[1],
                                 tagRE(PageLines(CollectKinds[k])[1]),
                                 Len(c_in.pages) + 1)
        /\ c_pos' = 1
  /\ UNCHANGED c_state

\* The input is exhausted: the generator ends.
CollectPagesExhausted ==
  /\ UNCHANGED << templVars, pipeVars >>
  /\ c_state = "running"
  /\ ~cp.raised
  /\ c_pos = Len(CollectPageLines)
  /\ c_state' = "exhausted"
  /\ UNCHANGED << c_in, c_pos, cp, c_redirectSeen, c_closed, c_yieldAt >>

\* A closing page tag was read before any title: NameError ends the generator.
CollectPagesRaise ==
  /\ UNCHANGED << templVars, pipeVars >>
  /\ c_state = "running"
  /\ cp.raised
  /\ c_state' = "raised"
  /\ UNCHANGED << c_in, c_pos, cp, c_redirectSeen, c_closed, c_yieldAt >>

\* ------------------------------------------------------------------------
\* process_dump: the input, the queues, the converter and the sink

DigitChars == <<"0", "1", "2", "3", "4", "5", "6", "7", "8", "9">>
\* str(i) for 0 <= i <= 99
Digits(i) ==
  IF i < 10 THEN << DigitChars[i + 1] >>
  ELSE << DigitChars[(i \div 10) + 1], DigitChars[(i % 10) + 1] >>

\* The dump given to process_dump: the header, one template page and
\* npages articles with ids 1, 2, ... and titles p1, p2, ...
Article(i) == Page(<<"p">> \o Digits(i), Digits(i), FALSE, "inline")
DumpPages(npages) ==
  << Page(t_Tm \o <<COLON, "a">>, <<"0">>, FALSE, "inline") >>
  \o [i \in 1..npages |-> Article(i)]
\* The same dump with the titles of its first two articles, p? and p*,
\* differing only in a character that get_safe_filename replaces.
CollidingPages(npages) ==
  [i \in 1..(npages + 1) |->
     IF i = 2 THEN [DumpPages(npages)[i] EXCEPT !.title = <<"p", "?">>]
     ELSE IF i = 3 THEN [DumpPages(npages)[i] EXCEPT !.title = <<"p", "*">>]
     ELSE DumpPages(npages)[i]]
InputLines ==
  HeaderLines(cfg.header)
  \o PagesLines(IF cfg.collide THEN CollidingPages(cfg.npages)
                ELSE DumpPages(cfg.npages))
\* The lines the input file object has still to give.
InputRest == SubSeq(InputLines, input_pos + 1, Len(InputLines))

\* A template file that exists holds what an earlier run over the same dump
\* wrote to it.
OldTemplateLines ==
  LET h == HdRun(GlobalsInit, InputLines)
  IN SplitLines(LtRun(LtInit(h.g.templateNamespace, h.g.templatePrefix,
                             h.g.moduleNamespace), h.rest, TRUE).output)

\* max(1, process_count), line 363
NumWorkers == IF cfg.process_count > 1 THEN cfg.process_count ELSE 1
\* The largest pool the bounds allow.
Pool == 1..(IF MaxProcs > 1 THEN MaxProcs ELSE 1)

\* multiprocessing.Queue(maxsize=maxsize), lines 351 and 358: put blocks
\* while the queue holds maxsize items; a maxsize <= 0 sets no limit.
QueueFull(q) == maxsize > 0 /\ Len(q) >= maxsize

\* acceptedNamespaces of the run: the default of the extract module, or the
\* set given with --namespaces (lines 489-490).
acceptedNamespaces == {t_W}

None == [kind |-> "None"]
\* job = (id, revid, urlbase, title, page, ordinal), line 377
Job(rec, n) ==
  [kind |-> "job", id |-> rec.id, revid |-> rec.revid, urlbase |-> g.urlbase,
   title |-> rec.title, page |-> rec.page, ordinal |-> n]
\* Extractor(id, revid, urlbase, title, page).extract(out): the converter is
\* external; the text it gives is a function of the job's record.
Extract(job) == job.title \o <<NL>> \o Join(job.page)
\* (ordinal, id, title, text), line 418
Result(job) ==
  [kind |-> "result", ordinal |-> job.ordinal, id |-> job.id, title |-> job.title,
   text |-> Extract(job)]

\* get_safe_filename (lines 92-101)
UnsafeChars == {SLASH, "\\", "?", "%", "*", COLON, "|", QUOTE, LT, GT, SPACE, NL, "\t"}
MaxNameLen == 200
get_safe_filename(title) ==
  LET safe_name == [i \in 1..Len(title) |->
                      IF title[i] \in UnsafeChars THEN "_" ELSE title[i]]
  IN (IF Len(safe_name) > MaxNameLen THEN Slice(safe_name, 0, MaxNameLen) ELSE safe_name)
       \o <<".", "m", "d">>
\* A writer that leaves a file that exists as it is.
write_page_KeepFirst(dir, title, text) ==
  LET filename == get_safe_filename(title)
  IN [f \in DOMAIN dir \cup {filename} |-> IF f \in DOMAIN dir THEN dir[f] ELSE text]

\* PageWriter.write_page (lines 113-121): the directory after the write.
write_page(dir, title, text) ==
  LET filename == get_safe_filename(title)
  IN [f \in DOMAIN dir \cup {filename} |-> IF f = filename THEN text ELSE dir[f]]

\* ------------------------------------------------------------------------
\* process_dump: the main line of control

procVars == << jobs_queue, output_queue, worker, reducer, files, pages_written,
               written, sentinels_popped >>

PipeIdle ==
  /\ cfg = [input_file |-> "dump", template_file |-> "none", expand_templates |-> FALSE,
            process_count |-> 0, header |-> 1, npages |-> 0, collide |-> FALSE]
  /\ pc = "done"
  /\ error = "none"
  /\ g = GlobalsInit
  /\ templates = << >>
  /\ mirror_saved = FALSE
  /\ pages = << >>
  /\ ordinal = 0
  /\ maxsize = 0
  /\ input_pos = 0
  /\ jobs_queue = << >>
  /\ output_queue = << >>
  /\ worker = [w \in Pool |-> [pc |-> "none", job |-> None]]
  /\ reducer = [pc |-> "none", item |-> None]
  /\ signalled = 0
  /\ joined = 0
  /\ files = << >>
  /\ pages_written = 0
  /\ store_at_spawn = << >>
  /\ written = {}
  /\ sentinels_put = 0
  /\ sentinels_popped = 0

\* The arguments of process_dump.  input_file is "-" or the name of a dump;
\* template_file is not given ("none"), names a file that does not exist yet
\* ("new") or names one that exists ("old").  A pool of several workers is
\* run on the shorter dumps, and so are the dumps in which two titles have
\* the same file name and the dumps that have no header.
PipeInit ==
  /\ cfg \in { c \in [input_file : {"-", "dump"},
                      template_file : {"none", "new", "old"},
                      expand_templates : BOOLEAN,
                      process_count : 0..MaxProcs,
                      header : {1, 2, 3},
                      npages : 0..MaxPages,
                      collide : BOOLEAN] :
               /\ c.process_count > 1 => c.npages <= MaxParPages
               /\ c.header = 3 => c.npages <= MaxParPages
               /\ c.collide => /\ c.npages \in 2..MaxParPages
                               /\ c.input_file = "dump"
                               /\ c.template_file = "none"
                               /\ ~c.expand_templates
                               /\ c.header = 1 }
  /\ pc = "siteinfo"
  /\ error = "none"
  /\ g = GlobalsInit
  /\ templates = << >>
  /\ mirror_saved = FALSE
  /\ pages = << >>
  /\ ordinal = 0
  /\ maxsize = 0
  /\ input_pos = 0
  /\ jobs_queue = << >>
  /\ output_queue = << >>
  /\ worker = [w \in Pool |-> [pc |-> "none", job |-> None]]
  /\ reducer = [pc |-> "none", item |-> None]
  /\ signalled = 0
  /\ joined = 0
  /\ files = << >>
  /\ pages_written = 0
  /\ store_at_spawn = << >>
  /\ written = {}
  /\ sentinels_put = 0
  /\ sentinels_popped = 0

\* Lines 292-315: open the input and read the header.
ReadSiteinfo ==
  /\ UNCHANGED << templVars, collectVars >>
  /\ pc = "siteinfo"
  /\ LET h == HdRun(GlobalsInit, InputLines)
     IN /\ g' = h.g
        /\ input_pos' = Len(InputLines) - Len(h.rest)
  /\ pc' = "templates"
  /\ UNCHANGED << cfg, error, templates, mirror_saved, pages, ordinal, maxsize,
                  signalled, joined, store_at_spawn, sentinels_put >>
  /\ UNCHANGED procVars

\* The globals after load_templates returned frame r.
AfterLoad(r) ==
  [g EXCEPT !.templateNamespace = r.templateNamespace,
            !.templatePrefix = r.templatePrefix]

\* load_templates deferred until the pages are being dispatched.
LoadTemplates_Lazy ==
  /\ UNCHANGED << templVars, collectVars >>
  /\ \/ /\ pc = "templates"
        /\ pc' = "start_reduce"
        /\ UNCHANGED templates
     \/ /\ pc = "dispatch"
        /\ cfg.expand_templates
        /\ DOMAIN templates = {}
        /\ templates' = LtRun(LtInit(g.templateNamespace, g.templatePrefix,
                                     g.moduleNamespace), InputLines, FALSE).store
        /\ UNCHANGED pc
  /\ UNCHANGED << cfg, error, g, mirror_saved, input_pos, pages, ordinal, maxsize,
                  signalled, joined, store_at_spawn, sentinels_put >>
  /\ UNCHANGED procVars

\* load_templates without the test for the input "-".
LoadTemplates_NoStdinCheck ==
  /\ UNCHANGED << templVars, collectVars >>
  /\ pc = "templates"
  /\ IF ~cfg.expand_templates
     THEN /\ pc' = "start_reduce"
          /\ UNCHANGED << g, templates, mirror_saved, input_pos >>
     ELSE LET r == LtRun(LtInit(g.templateNamespace, g.templatePrefix, g.moduleNamespace),
                         IF cfg.template_file = "old" THEN OldTemplateLines ELSE InputRest,
                         cfg.template_file = "new")
          IN /\ templates' = r.store
             /\ g' = AfterLoad(r)
             /\ mirror_saved' = (cfg.template_file = "new")
             /\ input_pos' = IF cfg.template_file = "old" THEN input_pos ELSE 0
             /\ pc' = "start_reduce"
  /\ UNCHANGED << cfg, error, pages, ordinal, maxsize, signalled, joined,
                  store_at_spawn, sentinels_put >>
  /\ UNCHANGED procVars

\* Lines 317-334: collect the templates, from the template file if it
\* exists, else from the input, which is then opened again; the input "-"
\* cannot be read twice.
LoadTemplates ==
  /\ UNCHANGED << templVars, collectVars >>
  /\ pc = "templates"
  /\ IF ~cfg.expand_templates
     THEN /\ pc' = "start_reduce"
          /\ UNCHANGED << error, g, templates, mirror_saved, input_pos >>
     ELSE IF cfg.template_file = "old"
     THEN LET r == LtRun(LtInit(g.templateNamespace, g.templatePrefix, g.moduleNamespace),
                         OldTemplateLines, FALSE)
          IN /\ templates' = r.store
             /\ g' = AfterLoad(r)
             /\ pc' = "start_reduce"
             /\ UNCHANGED << error, mirror_saved, input_pos >>
     ELSE IF cfg.input_file = "-"
     THEN /\ pc' = "raised"
          /\ error' = "ValueError"
          /\ UNCHANGED << g, templates, mirror_saved, input_pos >>
     ELSE LET r == LtRun(LtInit(g.templateNamespace, g.templatePrefix, g.moduleNamespace),
                         InputRest, cfg.template_file = "new")
          IN /\ templates' = r.store
             /\ g' = AfterLoad(r)
             /\ mirror_saved' = (cfg.template_file = "new")
             /\ input_pos' = 0
             /\ pc' = "start_reduce"
             /\ UNCHANGED error
  /\ UNCHANGED << cfg, pages, ordinal, maxsize, signalled, joined, store_at_spawn,
                  sentinels_put >>
  /\ UNCHANGED procVars

\* Lines 336-355: the page writer, maxsize, the output queue and the reducer.
StartReduce ==
  /\ UNCHANGED << templVars, collectVars >>
  /\ pc = "start_reduce"
  /\ maxsize' = 10 * cfg.process_count
  /\ reducer' = [pc |-> "get", item |-> None]
  /\ pc' = "start_workers"
  /\ UNCHANGED << cfg, error, g, templates, mirror_saved, pages, ordinal, input_pos,
                  jobs_queue, output_queue, worker, signalled, joined, files,
                  pages_written, store_at_spawn, written, sentinels_put,
                  sentinels_popped >>

Spawned == Cardinality({w \in Pool : worker[w].pc # "none"})

\* Lines 358-368: the jobs queue and, one at a time, max(1, process_count)
\* workers; after the last one the main line enters the loop over
\* collect_pages(input) (line 376), whose records are those the generator
\* yields from the lines the input still has.
StartWorker ==
  /\ UNCHANGED << templVars, collectVars >>
  /\ pc = "start_workers"
  /\ Spawned < NumWorkers
  /\ worker' = [worker EXCEPT ![Spawned + 1] = [pc |-> "get", job |-> None]]
  /\ store_at_spawn' = IF Spawned = 0 THEN templates ELSE store_at_spawn
  /\ IF Spawned + 1 = NumWorkers
     THEN /\ pc' = "dispatch"
          /\ pages' = CpRun(CpInit, InputRest, acceptedNamespaces, g.templateNamespace).yielded
     ELSE UNCHANGED << pc, pages >>
  /\ UNCHANGED << cfg, error, g, templates, mirror_saved, ordinal, maxsize, input_pos,
                  jobs_queue, output_queue, reducer, signalled, joined, files,
                  pages_written, written, sentinels_put, sentinels_popped >>

\* Lines 376-379: the next record becomes a job; put blocks on a full queue.
Dispatch ==
  /\ UNCHANGED << templVars, collectVars >>
  /\ pc = "dispatch"
  /\ pages # << >>
  /\ ~QueueFull(jobs_queue)
  /\ jobs_queue' = Append(jobs_queue, Job(Head(pages), ordinal))
  /\ pages' = Tail(pages)
  /\ ordinal' = ordinal + 1
  /\ UNCHANGED << cfg, pc, error, g, templates, mirror_saved, maxsize, input_pos,
                  output_queue, worker, reducer, signalled, joined, files,
                  pages_written, store_at_spawn, written, sentinels_put,
                  sentinels_popped >>

\* Line 381: the generator is exhausted; the input is closed.
CloseInput ==
  /\ UNCHANGED << templVars, collectVars >>
  /\ pc = "dispatch"
  /\ pages = << >>
  /\ pc' = "signal"
  /\ input_pos' = Len(InputLines)
  /\ UNCHANGED << cfg, error, g, templates, mirror_saved, pages, ordinal, maxsize,
                  signalled, joined, store_at_spawn, sentinels_put >>
  /\ UNCHANGED procVars

\* A single None on the jobs queue, however many workers there are.
SignalTermination_Once ==
  /\ UNCHANGED << templVars, collectVars >>
  /\ pc = "signal"
  /\ ~QueueFull(jobs_queue)
  /\ jobs_queue' = Append(jobs_queue, None)
  /\ signalled' = NumWorkers
  /\ pc' = "join"
  /\ UNCHANGED << cfg, error, g, templates, mirror_saved, pages, ordinal, maxsize,
                  input_pos, output_queue, worker, reducer, joined, files,
                  pages_written, store_at_spawn, written, sentinels_put,
                  sentinels_popped >>

\* Lines 384-385: one None per worker on the jobs queue.
SignalTermination ==
  /\ UNCHANGED << templVars, collectVars >>
  /\ pc = "signal"
  /\ signalled < NumWorkers
  /\ ~QueueFull(jobs_queue)
  /\ jobs_queue' = Append(jobs_queue, None)
  /\ signalled' = signalled + 1
  /\ pc' = IF signalled + 1 = NumWorkers THEN "join" ELSE pc
  /\ UNCHANGED << cfg, error, g, templates, mirror_saved, pages, ordinal, maxsize,
                  input_pos, output_queue, worker, reducer, joined, files,
                  pages_written, store_at_spawn, written, sentinels_put,
                  sentinels_popped >>

\* A process has terminated: join on it returns.
Terminated(p) == p.pc \in {"exited", "crashed"}

\* Lines 387-388: join the workers in the order they were started.
JoinWorker ==
  /\ UNCHANGED << templVars, collectVars >>
  /\ pc = "join"
  /\ joined < NumWorkers
  /\ Terminated(worker[joined + 1])
  /\ joined' = joined + 1
  /\ pc' = IF joined + 1 = NumWorkers THEN "signal_reduce" ELSE pc
  /\ UNCHANGED << cfg, error, g, templates, mirror_saved, pages, ordinal, maxsize,
                  input_pos, signalled, store_at_spawn, sentinels_put >>
  /\ UNCHANGED procVars

\* The None for the reducer put while the workers are still being joined.
SignalReduce_BeforeJoin ==
  /\ UNCHANGED << templVars, collectVars >>
  /\ \/ /\ pc = "join"
        /\ sentinels_put = 0
        /\ ~QueueFull(output_queue)
        /\ output_queue' = Append(output_queue, None)
        /\ sentinels_put' = 1
        /\ UNCHANGED pc
     \/ /\ pc = "signal_reduce"
        /\ pc' = "join_reduce"
        /\ UNCHANGED << output_queue, sentinels_put >>
  /\ UNCHANGED << cfg, error, g, templates, mirror_saved, pages, ordinal, maxsize,
                  input_pos, jobs_queue, worker, reducer, signalled, joined, files,
                  pages_written, store_at_spawn, written, sentinels_popped >>

\* Line 391: the None that ends the reducer.
SignalReduce ==
  /\ UNCHANGED << templVars, collectVars >>
  /\ pc = "signal_reduce"
  /\ ~QueueFull(output_queue)
  /\ output_queue' = Append(output_queue, None)
  /\ sentinels_put' = sentinels_put + 1
  /\ pc' = "join_reduce"
  /\ UNCHANGED << cfg, error, g, templates, mirror_saved, pages, ordinal, maxsize,
                  input_pos, jobs_queue, worker, reducer, signalled, joined, files,
                  pages_written, store_at_spawn, written, sentinels_popped >>

\* Lines 393-398: join the reducer and return.
JoinReduce ==
  /\ UNCHANGED << templVars, collectVars >>
  /\ pc = "join_reduce"
  /\ Terminated(reducer)
  /\ pc' = "done"
  /\ UNCHANGED << cfg, error, g, templates, mirror_saved, pages, ordinal, maxsize,
                  input_pos, signalled, joined, store_at_spawn, sentinels_put >>
  /\ UNCHANGED procVars

mainVars == << cfg, pc, error, g, templates, mirror_saved, pages, ordinal, maxsize,
               input_pos, signalled, joined, store_at_spawn, sentinels_put >>

\* ------------------------------------------------------------------------
\* extract_process (lines 411-421)

\* A worker that reads the head of the jobs queue and leaves a job there.
WorkerGet_Peek(w) ==
  /\ UNCHANGED << templVars, collectVars >>
  /\ worker[w].pc = "get"
  /\ jobs_queue # << >>
  /\ jobs_queue' = IF Head(jobs_queue).kind = "job" THEN jobs_queue ELSE Tail(jobs_queue)
  /\ worker' = [worker EXCEPT ![w] =
                  IF Head(jobs_queue).kind = "job"
                  THEN [pc |-> "put", job |-> Head(jobs_queue)]
                  ELSE [pc |-> "exited", job |-> None]]
  /\ UNCHANGED mainVars
  /\ UNCHANGED << output_queue, reducer, files, pages_written, written,
                  sentinels_popped >>

\* job = jobs_queue.get(): a job is kept for conversion, None ends the loop.
WorkerGet(w) ==
  /\ UNCHANGED << templVars, collectVars >>
  /\ worker[w].pc = "get"
  /\ jobs_queue # << >>
  /\ jobs_queue' = Tail(jobs_queue)
  /\ worker' = [worker EXCEPT ![w] =
                  IF Head(jobs_queue).kind = "job"
                  THEN [pc |-> "put", job |-> Head(jobs_queue)]
                  ELSE [pc |-> "exited", job |-> None]]
  /\ UNCHANGED mainVars
  /\ UNCHANGED << output_queue, reducer, files, pages_written, written,
                  sentinels_popped >>

\* A worker that converts the job and puts nothing on the output queue.
WorkerPut_DropsResult(w) ==
  /\ UNCHANGED << templVars, collectVars >>
  /\ worker[w].pc = "put"
  /\ worker' = [worker EXCEPT ![w] = [pc |-> "get", job |-> None]]
  /\ UNCHANGED mainVars
  /\ UNCHANGED << jobs_queue, output_queue, reducer, files, pages_written, written,
                  sentinels_popped >>

\* A worker that writes the converted page to the output directory itself
\* before it puts the result on the output queue.
WorkerPut_WritesPage(w) ==
  /\ UNCHANGED << templVars, collectVars >>
  /\ worker[w].pc = "put"
  /\ ~QueueFull(output_queue)
  /\ output_queue' = Append(output_queue, Result(worker[w].job))
  /\ files' = write_page(files, Result(worker[w].job).title,
                         Result(worker[w].job).text)
  /\ worker' = [worker EXCEPT ![w] = [pc |-> "get", job |-> None]]
  /\ UNCHANGED mainVars
  /\ UNCHANGED << jobs_queue, reducer, pages_written, written,
                  sentinels_popped >>

\* The job is converted and its result put on the output queue.
WorkerPut(w) ==
  /\ UNCHANGED << templVars, collectVars >>
  /\ worker[w].pc = "put"
  /\ ~QueueFull(output_queue)
  /\ output_queue' = Append(output_queue, Result(worker[w].job))
  /\ worker' = [worker EXCEPT ![w] = [pc |-> "get", job |-> None]]
  /\ UNCHANGED mainVars
  /\ UNCHANGED << jobs_queue, reducer, files, pages_written, written,
                  sentinels_popped >>

\* ------------------------------------------------------------------------
\* reduce_process (lines 434-449)

\* item = output_queue.get(): None ends the loop.
ReduceGet ==
  /\ UNCHANGED << templVars, collectVars >>
  /\ reducer.pc = "get"
  /\ output_queue # << >>
  /\ output_queue' = Tail(output_queue)
  /\ IF Head(output_queue).kind = "result"
     THEN /\ reducer' = [pc |-> "write", item |-> Head(output_queue)]
          /\ UNCHANGED sentinels_popped
     ELSE /\ reducer' = [pc |-> "exited", item |-> None]
          /\ sentinels_popped' = sentinels_popped + 1
  /\ UNCHANGED mainVars
  /\ UNCHANGED << jobs_queue, worker, files, pages_written, written >>

\* A reducer that writes a result only when it arrives in dispatch order.
ReduceWrite_InOrderOnly ==
  /\ UNCHANGED << templVars, collectVars >>
  /\ reducer.pc = "write"
  /\ files' = IF reducer.item.ordinal = pages_written
              THEN write_page(files, reducer.item.title, reducer.item.text)
              ELSE files
  /\ pages_written' = pages_written + 1
  /\ written' = written \cup {reducer.item.ordinal}
  /\ reducer' = [pc |-> "get", item |-> None]
  /\ UNCHANGED mainVars
  /\ UNCHANGED << jobs_queue, output_queue, worker, sentinels_popped >>

\* page_writer.write_page(id, title, text); pages_written += 1
ReduceWrite ==
  /\ UNCHANGED << templVars, collectVars >>
  /\ reducer.pc = "write"
  /\ files' = write_page(files, reducer.item.title, reducer.item.text)
  /\ pages_written' = pages_written + 1
  /\ written' = written \cup {reducer.item.ordinal}
  /\ reducer' = [pc |-> "get", item |-> None]
  /\ UNCHANGED mainVars
  /\ UNCHANGED << jobs_queue, output_queue, worker, sentinels_popped >>

\* ------------------------------------------------------------------------
\* Failures: the converter raises in a worker, the sink raises in the reducer

WorkerFails(w) ==
  /\ UNCHANGED << templVars, collectVars >>
  /\ worker[w].pc = "put"
  /\ worker' = [worker EXCEPT ![w] = [pc |-> "crashed", job |-> None]]
  /\ UNCHANGED mainVars
  /\ UNCHANGED << jobs_queue, output_queue, reducer, files, pages_written, written,
                  sentinels_popped >>

ReducerFails ==
  /\ UNCHANGED << templVars, collectVars >>
  /\ reducer.pc = "write"
  /\ reducer' = [pc |-> "crashed", item |-> None]
  /\ UNCHANGED mainVars
  /\ UNCHANGED << jobs_queue, output_queue, worker, files, pages_written, written,
                  sentinels_popped >>

\* ------------------------------------------------------------------------
\* Specifications

WorkerStep(w) == WorkerGet(w) \/ WorkerPut(w)
ReduceStep == ReduceGet \/ ReduceWrite

\* The pipeline with no process failing.
Init == PipeInit /\ TemplIdle /\ CollectIdle
Next ==
  \/ ReadSiteinfo
  \/ LoadTemplates
  \/ StartReduce
  \/ StartWorker
  \/ Dispatch
  \/ CloseInput
  \/ SignalTermination
  \/ JoinWorker
  \/ SignalReduce
  \/ JoinReduce
  \/ \E w \in Pool : WorkerGet(w)
  \/ \E w \in Pool : WorkerPut(w)
  \/ ReduceGet
  \/ ReduceWrite
Spec == Init /\ [][Next]_vars

\* The pipeline under fair scheduling. The main line does not stay for ever
\* in a step of its setup, none of which waits for another process; in its
\* loops, and in the workers and the reducer, a step that stays possible is
\* eventually taken. The runs start from the header that declares both
\* namespaces, with a template file named only when templates are expanded.
SetupPcs == {"siteinfo", "templates", "start_reduce", "start_workers"}
LoopStep ==
  \/ Dispatch
  \/ CloseInput
  \/ SignalTermination
  \/ JoinWorker
  \/ SignalReduce
  \/ JoinReduce
FairInit ==
  /\ Init
  /\ cfg.header = 1
  /\ cfg.expand_templates \/ cfg.template_file = "none"
FairSpec ==
  /\ FairInit
  /\ [][Next]_vars
  /\ \A p \in SetupPcs : []<>(pc # p)
  /\ WF_vars(LoopStep)
  /\ \A w \in Pool : WF_vars(WorkerStep(w))
  /\ WF_vars(ReduceStep)

\* The pipeline with workers and the reducer liable to fail.
FailNext ==
  \/ Next
  \/ \E w \in Pool : WorkerFails(w)
  \/ ReducerFails
FailSpec == Init /\ [][FailNext]_vars

\* The template collector.
TemplNext ==
  \/ LoadTemplatesLine
  \/ LoadTemplatesReturn
  \/ ReloadTemplatesReturn
  \/ LoadTemplatesRaise
TemplStart == TemplInit /\ CollectIdle /\ PipeIdle
TemplSpec == TemplStart /\ [][TemplNext]_vars

\* The page collector.
CollectNext ==
  \/ CollectPagesLine
  \/ CollectPagesExhausted
  \/ CollectPagesRaise
CollectStart == CollectInit /\ TemplIdle /\ PipeIdle
CollectSpec == CollectStart /\ [][CollectNext]_vars

\* ------------------------------------------------------------------------
\* Claims about the pipeline

\* C1: with no process failing, whatever the order in which workers finish,
\* the reducer calls write_page once for each dispatched job and no more,
\* pops the None sentinel once, and exits only then, with every record that
\* collect_pages yields dispatched and written.
C1_ReducerWritesEveryJobOnce ==
  /\ written \subseteq 0..(ordinal - 1)
  /\ pages_written = Cardinality(written)
  /\ sentinels_popped <= 1
  /\ (reducer.pc = "exited") = (sentinels_popped = 1)
  /\ reducer.pc = "exited" =>
       /\ pages = << >>
       /\ pages_written = ordinal
       /\ written = 0..(ordinal - 1)
  /\ pc = "done" => reducer.pc = "exited"

\* A run of three jobs through a pool of two workers has returned.
C1_Witness ==
  /\ pc = "done"
  /\ NumWorkers = 2
  /\ ordinal = 3
  /\ pages_written = 3

\* C2: the one None put on the output queue is put after every worker has
\* been joined; when the reducer has popped it, no worker is running, no
\* result is left in the output queue and none can still be produced.
C2_SentinelAfterJoin ==
  /\ sentinels_put <= 1
  /\ sentinels_put = 1 =>
       /\ joined = NumWorkers
       /\ \A w \in 1..NumWorkers : Terminated(worker[w])
  /\ sentinels_popped >= 1 =>
       /\ sentinels_put = 1
       /\ \A w \in Pool : worker[w].pc \in {"none", "exited"}
       /\ output_queue = << >>
       /\ \A i \in 1..Len(jobs_queue) : jobs_queue[i].kind # "job"
       /\ pages = << >>

\* The reducer has popped the sentinel after writing the results of a pool
\* of two workers.
C2_Witness ==
  /\ sentinels_popped = 1
  /\ NumWorkers = 2
  /\ pages_written >= 2

\* C3 (under fair scheduling, no process failing): process_dump ends; when
\* it returns, the dispatcher has put one None per spawned worker on the
\* jobs queue, every worker and the reducer have exited and both queues are
\* empty.
C3_Returned ==
  \/ pc = "raised"
  \/ /\ pc = "done"
     /\ pages = << >>
     /\ signalled = NumWorkers
     /\ Spawned = NumWorkers
     /\ \A w \in 1..NumWorkers : worker[w].pc = "exited"
     /\ reducer.pc = "exited"
     /\ jobs_queue = << >>
     /\ output_queue = << >>
C3_Terminates == <>C3_Returned

\* A run that filled the jobs queue of a single worker has returned.
C3_Witness ==
  /\ pc = "done"
  /\ cfg.process_count = 1
  /\ ordinal > 10
  /\ pages_written = ordinal

\* C4: template collection is over before the reducer or any worker is
\* started, and from the spawning of the first worker on the template store
\* keeps the value it had then.
C4_StoreFrozenBeforeSpawn ==
  /\ (reducer.pc # "none" \/ Spawned > 0) => pc \notin {"siteinfo", "templates"}
  /\ Spawned > 0 => templates = store_at_spawn

\* Workers run on a store that holds a template.
C4_Witness ==
  /\ Spawned = 2
  /\ DOMAIN templates # {}
  /\ pages_written >= 1

\* C5: each queue has room for 10 items per spawned worker and never holds
\* more.
C5_TenPerWorker ==
  Spawned = NumWorkers =>
    /\ Len(jobs_queue) <= 10 * Spawned
    /\ Len(output_queue) <= 10 * Spawned

\* C8: when a worker or the reducer fails, process_dump does not return
\* normally with a dispatched article missing from the output.
C8_NoArticleLostSilently ==
  pc = "done" => written = 0..(ordinal - 1)

\* C9: with template expansion on, input "-" and no existing template file,
\* process_dump raises ValueError before anything is started or written.
C9_StdinNeedsTemplateFile ==
  (cfg.expand_templates /\ cfg.input_file = "-" /\ cfg.template_file # "old") =>
    /\ pc \in {"siteinfo", "templates", "raised"}
    /\ pc = "raised" => error = "ValueError"
    /\ reducer.pc = "none"
    /\ Spawned = 0
    /\ ordinal = 0
    /\ jobs_queue = << >>
    /\ files = << >>
    /\ ~mirror_saved

\* The error was raised for a template file that was named but does not exist.
C9_Witness ==
  /\ pc = "raised"
  /\ error = "ValueError"
  /\ cfg.template_file = "new"

\* The records collect_pages yields in this run: from the lines after the
\* header or, when the templates were collected from the input, from the
\* input opened again (lines 330-332, 376).
YieldedRecords ==
  CpRun(CpInit,
        IF cfg.expand_templates /\ cfg.template_file # "old"
        THEN InputLines ELSE HdRun(GlobalsInit, InputLines).rest,
        acceptedNamespaces, g.templateNamespace).yielded

\* The output directory after the results of recs, dispatched with the
\* ordinals n, n + 1, ..., are written one after the other in that order.
RECURSIVE WriteAll(_, _, _)
WriteAll(dir, recs, n) ==
  IF recs = << >> THEN dir
  ELSE WriteAll(write_page(dir, Head(recs).title, Extract(Job(Head(recs), n))),
                Tail(recs), n + 1)

\* No two of the records have titles with the same file name.
DistinctNames(recs) ==
  \A i, j \in 1..Len(recs) :
    get_safe_filename(recs[i].title) = get_safe_filename(recs[j].title) => i = j

\* C11: when the titles yielded have distinct file names, the output
\* directory a run leaves holds, whatever the number of workers and the
\* order in which their results reached the reducer, exactly the files that
\* writing the results in dispatch order gives, each with the same content.
C11_OutputIndependentOfOrder ==
  (pc = "done" /\ DistinctNames(YieldedRecords)) =>
    files = WriteAll(<< >>, YieldedRecords, 0)

\* A run of two workers has returned and left three files.
C11_Witness ==
  /\ pc = "done"
  /\ NumWorkers = 2
  /\ Cardinality(DOMAIN files) = 3
  /\ DistinctNames(YieldedRecords)

\* The name under which the two colliding titles are written.
CollidingName == get_safe_filename(<<"p", "?">>)

\* C12: when two yielded titles have the same file name, every write of the
\* reducer leaves under the name of its result the text of that result and
\* leaves every other file as it was, so the file holds the text of the
\* result popped last; the run that has returned has written every result
\* and left one file under the common name, one file less than the titles.
C12_LastWriterWins ==
  [][/\ (reducer.pc = "write" /\ reducer'.pc = "get") =>
          /\ DOMAIN files' = DOMAIN files \cup {get_safe_filename(reducer.item.title)}
          /\ files'[get_safe_filename(reducer.item.title)] = reducer.item.text
          /\ \A f \in DOMAIN files \ {get_safe_filename(reducer.item.title)} :
               files'[f] = files[f]
     /\ (cfg.collide /\ pc' = "done") =>
          /\ pages_written' = cfg.npages
          /\ CollidingName \in DOMAIN files'
          /\ Cardinality(DOMAIN files') = cfg.npages - 1
          /\ files'[CollidingName] \in
               {Extract(Job(YieldedRecords[1], 0)), Extract(Job(YieldedRecords[2], 1))}]_vars

\* A run of two workers over colliding titles has returned and the file
\* holds the text of the title dispatched first: its result was popped last.
C12_Witness ==
  /\ cfg.collide
  /\ pc = "done"
  /\ NumWorkers = 2
  /\ files[CollidingName] = Extract(Job(YieldedRecords[1], 0))

\* The places where the job with ordinal n, or its result, is: in the jobs
\* queue, with a worker, in the output queue, with the reducer, written.
PlacesOf(n) ==
  Cardinality({i \in 1..Len(jobs_queue) :
                 jobs_queue[i].kind = "job" /\ jobs_queue[i].ordinal = n})
  + Cardinality({w \in Pool : worker[w].pc = "put" /\ worker[w].job.ordinal = n})
  + Cardinality({i \in 1..Len(output_queue) :
                   output_queue[i].kind = "result" /\ output_queue[i].ordinal = n})
  + (IF reducer.pc = "write" /\ reducer.item.ordinal = n THEN 1 ELSE 0)
  + (IF n \in written THEN 1 ELSE 0)

\* Every ordinal dispatched is in one place, and no other ordinal is anywhere.
InOnePlace ==
  /\ \A n \in 0..(ordinal - 1) : PlacesOf(n) = 1
  /\ \A i \in 1..Len(jobs_queue) :
       jobs_queue[i].kind = "job" => jobs_queue[i].ordinal < ordinal
  /\ pages_written = Cardinality(written)

\* C14: the dispatcher gives the jobs the ordinals 0, 1, 2, ... in dispatch
\* order; a job is taken from the jobs queue by one worker, which converts
\* it once and puts one result with the job's ordinal, id and title on the
\* output queue; at any time a dispatched job or its result is in exactly
\* one place.
C14_EachJobOnce ==
  [][/\ InOnePlace'
     /\ ordinal' # ordinal =>
          /\ ordinal' = ordinal + 1
          /\ jobs_queue' = Append(jobs_queue, Job(Head(pages), ordinal))
     /\ \A w \in Pool :
          (worker[w].pc = "get" /\ worker'[w].pc = "put") =>
             /\ worker'[w].job = Head(jobs_queue)
             /\ jobs_queue' = Tail(jobs_queue)
             /\ \A v \in Pool \ {w} : worker'[v] = worker[v]
     /\ \A w \in Pool :
          (worker[w].pc = "put" /\ worker'[w].pc = "get") =>
             /\ Len(output_queue') = Len(output_queue) + 1
             /\ output_queue'[Len(output_queue')] =
                  [kind |-> "result", ordinal |-> worker[w].job.ordinal,
                   id |-> worker[w].job.id, title |-> worker[w].job.title,
                   text |-> Extract(worker[w].job)]
     /\ Len(output_queue') > Len(output_queue) =>
          \/ output_queue'[Len(output_queue')].kind = "None"
          \/ \E w \in Pool : worker[w].pc = "put" /\ worker'[w].pc = "get"]_vars

\* Two workers hold a job each while a third job waits in the jobs queue.
C14_Witness ==
  /\ worker[1].pc = "put"
  /\ worker[2].pc = "put"
  /\ worker[1].job.ordinal # worker[2].job.ordinal
  /\ \E i \in 1..Len(jobs_queue) : jobs_queue[i].kind = "job"
  /\ InOnePlace

\* C15: when the header loop is left, the lines read from the input are
\* those of the header and no line of a page element.
C15_HeaderReaderStopsBeforePages ==
  pc = "templates" => input_pos <= Len(HeaderLines(cfg.header))

\* C16: once the header is read, every namespace name it declares is in the
\* set of accepted namespaces that collect_pages consults.
C16_DeclaredNamespacesAccepted ==
  pc # "siteinfo" =>
    \A name \in g.knownNamespaces \ GlobalsInit.knownNamespaces :
      name \in acceptedNamespaces

\* C21: write_page is called by the reducer only.  The output directory
\* changes only in a step of the one reducer process, from its position
\* after output_queue.get() returned a result, by the write of that result;
\* the main line and the workers take no part in the step.  The reducer is
\* one sequential process, so the write in progress is at most this one.
C21_OnlyReducerWrites ==
  [][ files' # files
      => /\ reducer.pc = "write"
         /\ reducer'.pc = "get"
         /\ files' = write_page(files, reducer.item.title, reducer.item.text)
         /\ worker' = worker
         /\ pc' = pc
         /\ input_pos' = input_pos ]_vars

\* The reducer holds a result it is about to write, after an earlier write,
\* while a worker is converting a page and the main line still dispatches.
C21_Witness ==
  /\ pc = "dispatch"
  /\ reducer.pc = "write"
  /\ DOMAIN files # {}
  /\ \E w \in Pool : worker[w].pc = "put"

\* ------------------------------------------------------------------------
\* Claims about collect_pages

\* The id of the record yielded last, empty before the first.
LastYieldedId ==
  IF cp.yielded = << >> THEN << >> ELSE cp.yielded[Len(cp.yielded)].id

\* The line the next iteration reads is a closing page tag.
AtClosingPageTag ==
  /\ c_state = "running"
  /\ c_pos < Len(CollectPageLines)
  /\ tagRE(CollectPageLines[c_pos + 1]).matched
  /\ tagRE(CollectPageLines[c_pos + 1]).g2 = n_cpage

\* A title without colon, or with a namespace prefix in the accepted set.
TitleAccepted(title) ==
  \/ Find(title, COLON) < 0
  \/ Slice(title, 0, Find(title, COLON)) \in c_in.accepted

\* C6: collect_pages yields a record only at a closing page tag and only if
\* (a) its title has no colon or its namespace prefix is accepted, (b) its
\* id differs from the id of the record yielded before it, (c) no redirect
\* tag was seen since the page element opened and (d) its title does not
\* start with the template namespace followed by a colon.
C6_YieldOnlyIfQualified ==
  [][Len(cp'.yielded) > Len(cp.yielded) =>
       /\ AtClosingPageTag
       /\ Len(cp'.yielded) = Len(cp.yielded) + 1
       /\ SubSeq(cp'.yielded, 1, Len(cp.yielded)) = cp.yielded
       /\ LET rec == cp'.yielded[Len(cp'.yielded)]
          IN /\ rec.title = cp.title
             /\ rec.id = cp.id
             /\ TitleAccepted(rec.title)
             /\ rec.id # LastYieldedId
             /\ ~c_redirectSeen
             /\ ~StartsWith(rec.title, c_in.templateNamespace \o <<COLON>>)]_vars

\* A run over a dump with a page of the namespace W, which is not accepted,
\* has yielded a record and passed over a page element.
C6_Witness ==
  /\ c_state = "exhausted"
  /\ c_in.accepted = {}
  /\ \E i \in 1..Len(c_in.pages) :
       CollectPagesOf(c_in.pages)[i].title = t_W \o <<COLON, "a">>
  /\ cp.yielded # << >>
  /\ c_closed > Len(cp.yielded)

\* The page elements of the dump that have a title, an id and a text element
\* with a closing tag.
WellFormedPage(pg) ==
  /\ pg.hasTitle
  /\ pg.id # << >>
  /\ pg.text \in {"inline", "multi"}

\* The page element passes the tests other than the one on the id.
OtherwiseQualifies(pg) ==
  /\ TitleAccepted(pg.title)
  /\ ~pg.redirect
  /\ ~StartsWith(pg.title, c_in.templateNamespace)

\* C7 as stated: of two consecutive page elements with the same id that
\* otherwise qualify the second is not yielded, and when a page element with
\* a different id lies between two such elements, both are yielded.
C7_AnyPageBetweenReenables ==
  LET pgs == CollectPagesOf(c_in.pages)
      Yielded(i) == \E n \in 1..Len(c_yieldAt) : c_yieldAt[n] = i
  IN (/\ c_state = "exhausted"
      /\ c_in.templateNamespace # << >>
      /\ \A i \in 1..Len(pgs) : WellFormedPage(pgs[i]))
     => \A i, j \in 1..Len(pgs) :
          (/\ i < j
           /\ pgs[i].id = pgs[j].id
           /\ OtherwiseQualifies(pgs[i])
           /\ OtherwiseQualifies(pgs[j]))
          => /\ j = i + 1 => ~Yielded(j)
             /\ (\E k \in (i + 1)..(j - 1) : pgs[k].id # pgs[i].id)
                  => (Yielded(i) /\ Yielded(j))

\* C7 amended: at a closing page tag read outside a text element, a page
\* element that passes the tests on the title and the redirect flag is
\* yielded exactly when its id differs from the id of the record yielded
\* last; so no two records yielded one after the other share an id, and a
\* page element in between that is not itself yielded does not make a page
\* with the id of the last record eligible again.
C7_ComparedWithLastYielded ==
  [][c_closed' = c_closed + 1 =>
       /\ (/\ TitleAccepted(cp.title)
           /\ ~c_redirectSeen
           /\ ~StartsWith(cp.title, c_in.templateNamespace))
          => ((Len(cp'.yielded) = Len(cp.yielded) + 1) <=> (cp.id # LastYieldedId))
       /\ \A n \in 1..(Len(cp'.yielded) - 1) :
            cp'.yielded[n].id # cp'.yielded[n + 1].id]_vars

\* Of three well-formed page elements the first and the third have the same
\* id and pass the other tests, the second has another id and was passed
\* over: only the first was yielded.
C7_Witness ==
  LET pgs == CollectPagesOf(c_in.pages)
  IN /\ c_state = "exhausted"
     /\ Len(pgs) = 3
     /\ \A i \in 1..3 : WellFormedPage(pgs[i])
     /\ pgs[1].id = pgs[3].id
     /\ pgs[2].id # pgs[1].id
     /\ OtherwiseQualifies(pgs[1])
     /\ OtherwiseQualifies(pgs[3])
     /\ c_closed = 3
     /\ c_yieldAt = << 1 >>

\* C13: every record collect_pages has yielded has a non-empty id.
C13_YieldedIdNonEmpty ==
  \A n \in 1..Len(cp.yielded) : cp.yielded[n].id # << >>

\* The line read by the iteration this step makes.
LineRead == CollectPageLines[c_pos]
\* The dump read so far has no text element without a closing tag.
TextElementsClosed ==
  \A i \in 1..Len(c_in.pages) :
    CollectPagesOf(c_in.pages)[i].text # "selfclosed"

\* C18: between a text open tag that is not closed on its line and the
\* closing text tag, every line read is appended unchanged to the body
\* buffer and changes nothing else of the frame; outside a text element a
\* line without an angle bracket changes nothing.
C18_VerbatimCapture ==
  [][ (/\ << c_in, c_pos >>' # << c_in, c_pos >>
       /\ TextElementsClosed')
      => /\ (/\ cp.inText
             /\ ~(/\ Find(LineRead', LT) >= 0
                  /\ tagRE(LineRead').matched
                  /\ tagRE(LineRead').g2 = n_ctext))
              => cp' = [cp EXCEPT !.page = Append(@, LineRead')]
         /\ (~cp.inText /\ Find(LineRead', LT) < 0) => cp' = cp ]_vars

\* C19: the title and the id of every record yielded are those of the page
\* element at whose closing tag it was yielded; nothing is carried over from
\* an earlier page element.
C19_RecordIntegrity ==
  \A n \in 1..Len(cp.yielded) :
    LET pg == CollectPagesOf(c_in.pages)[c_yieldAt[n]]
    IN /\ pg.hasTitle
       /\ cp.yielded[n].title = pg.title
       /\ cp.yielded[n].id = pg.id

\* The id of the record yielded last before the page element at position i
\* of the dump was read.
PrevYieldedId(i) ==
  LET before == {n \in 1..Len(c_yieldAt) : c_yieldAt[n] < i}
  IN IF before = {} THEN << >> ELSE cp.yielded[Cardinality(before)].id

\* C20: whatever the template namespace, also when none is known, every page
\* element that has no redirect tag, an accepted title that does not begin
\* with the template namespace followed by a colon, and an id other than
\* that of the record yielded before it, is yielded exactly once.
C20_FilterComplete ==
  LET pgs == CollectPagesOf(c_in.pages)
  IN (/\ c_state = "exhausted"
      /\ \A i \in 1..Len(pgs) : WellFormedPage(pgs[i]))
     => \A i \in 1..Len(pgs) :
          (/\ ~pgs[i].redirect
           /\ TitleAccepted(pgs[i].title)
           /\ ~StartsWith(pgs[i].title, c_in.templateNamespace \o <<COLON>>)
           /\ pgs[i].id # PrevYieldedId(i))
          => Cardinality({n \in 1..Len(c_yieldAt) : c_yieldAt[n] = i}) = 1

\* ------------------------------------------------------------------------
\* Claims about load_templates

\* C17: in load_templates, a title tag read while no template namespace is
\* known sets it from the first title that contains a colon (the namespace is
\* the text before the colon, the prefix that text and the colon), and a
\* title tag read once it is known leaves it as it is.
C17_NamespaceFromFirstColonTitle ==
  [][ (/\ t_pass \in {"first", "second"}
       /\ t_pass' = t_pass
       /\ t_pos' = t_pos + 1
       /\ Find(TemplLines[t_pos + 1], LT) >= 0
       /\ tagRE(TemplLines[t_pos + 1]).matched
       /\ tagRE(TemplLines[t_pos + 1]).g2 = n_title)
      => LET title == tagRE(TemplLines[t_pos + 1]).g3
             colon == Find(title, COLON)
         IN /\ (lt.templateNamespace = << >> /\ colon >= 0)
                 => /\ lt'.templateNamespace = Slice(title, 0, colon)
                    /\ lt'.templatePrefix = Slice(title, 0, colon + 1)
            /\ lt.templateNamespace # << >>
                 => /\ lt'.templateNamespace = lt.templateNamespace
                    /\ lt'.templatePrefix = lt.templatePrefix ]_vars

\* C10: every template the first pass stored and wrote to the mirror file
\* is stored with the same body when the mirror file is loaded.
C10_MirrorRoundTrip ==
  (t_pass = "done" /\ t_in.hasOut) =>
    \A title \in DOMAIN t_first.store :
      /\ title \in DOMAIN lt.store
      /\ lt.store[title] = t_first.store[title]

====
